---- MODULE Spec2Model ----
(***************************************************************************)
(* Write-ahead transaction manager of EliasDB's StorageFile                *)
(* (storage/file/transactionmanager.go).                                   *)
(*                                                                         *)
(* The manager's methods are operators from a state record to a state      *)
(* record, named as in the source and composed as the source calls them;   *)
(* each action of the next-state relation is one call of the manager's     *)
(* interface, or the end of the process.  Record, the main data file       *)
(* (owner) and the file system are collaborators whose code is outside     *)
(* transactionmanager.go; they are modelled by what the manager's          *)
(* documentation says of them.                                             *)
(*                                                                         *)
(* A slot holds pointers to Record objects.  The owner keeps one Record    *)
(* object per id while the record is in a transaction (syncLogFromMemory:  *)
(* "if the same record is listed twice"), so a Record is named by its id;  *)
(* its page image changes when its user writes to it, and every slot that  *)
(* lists the record sees the image it has now.                             *)
(***************************************************************************)
EXTENDS Integers, Sequences, FiniteSets, TLC

\* DEFAULT_TRANS_IN_LOG is 10 in the source; the model runs the manager with a
\* smaller capacity (the constructor stores it in the maxTrans field).
maxTrans == 2
\* Number of Record objects (ids) the caller hands to add.
NumRecs == 2
\* Number of page images a record can take.
NumImages == 2
\* Largest number of slot entries (add calls not yet drained or rolled back).
MaxAdds == 2
\* Largest number of frames commit may append to one log.
MaxFrames == maxTrans
\* Largest number of calls on a manager that follow a call in which an I/O
\* operation failed; the end of the process and a new construction are not counted.
MaxAfter == 2

Recs == 1 .. NumRecs
Images == 1 .. NumImages
\* What the main file holds for an id that was never written.
NoImage == 0

\* Contents of the log file, one token per write the manager issues.
Byte(b) == [t |-> "byte", v |-> b, w |-> 0]
Count(n) == [t |-> "count", v |-> n, w |-> 0]
\* Record.WriteRecord: the id and the page image.
Rec(r, img) == [t |-> "rec", v |-> r, w |-> img]
\* What is left of a count or a record that a crash has cut.
Torn == [t |-> "torn", v |-> 0, w |-> 0]

TRANSACTION_LOG_HEADER == <<Byte(102), Byte(66)>>

\* A nil slice and make([]*Record, 0, DEFAULT_TRANS_SIZE).
NilList == [alloc |-> FALSE, recs |-> <<>>]
MakeList == [alloc |-> TRUE, recs |-> <<>>]

\* One injected I/O failure: the call site that fails; for a write of commit the
\* index of the failing write; for writeRecord the index of the syncRecords
\* call, the id whose write fails and the ids that were written before it.
NoFault == [kind |-> "none", at |-> 0, id |-> 0, pre |-> {}]

VARIABLES
    phase,          \* "up": a manager is in use; "closed": its user has closed
                    \* it; "down": the process is gone
    logFile,        \* t.logFile # nil
    curTrans,       \* t.curTrans
    transList,      \* t.transList
    transCount,     \* Record.transCount of every record
    dirty,          \* Record dirty flag of every record
    payload,        \* page image of every record in memory
    logExists,      \* the log file exists on disk
    log,            \* contents of the log file
    logSynced,      \* length of the prefix of log that is durable
    mainFile,       \* main data file as the file system shows it: id -> image
    mainDurable,    \* main data file as it is on disk
    op,             \* the last call
    err,            \* what the last call returned
    writes,         \* <<id, image>> written by each syncRecords call of the last call
    released,       \* releaseInTrans calls of the last call, per record
    decs,           \* number of DecTransCount calls of the last call, per record
    drains,         \* syncLogFromMemory calls of the last call
    opened,         \* start calls since the last drain, rollback or construction
    committed,      \* slot -> commit has returned nil and nothing was added since
    frames,         \* the slots successfully committed to the current log
    inflight,       \* the slot whose commit the last crash interrupted
    after,          \* 0, or the number of calls since the first one in which an
                    \* I/O operation failed, that call included
    failure,        \* the I/O operation that failed in the last call, or "none"
    recovered       \* what recover returned in the last call, or "none"

vars == <<phase, logFile, curTrans, transList, transCount, dirty, payload,
          logExists, log, logSynced, mainFile, mainDurable, op, err, writes,
          released, decs, drains, opened, committed, frames, inflight, after,
          failure, recovered>>

State ==
    [phase |-> phase, logFile |-> logFile, curTrans |-> curTrans,
     transList |-> transList, transCount |-> transCount, dirty |-> dirty,
     payload |-> payload, logExists |-> logExists, log |-> log,
     logSynced |-> logSynced, mainFile |-> mainFile,
     mainDurable |-> mainDurable, op |-> op, err |-> err, writes |-> writes,
     released |-> released, decs |-> decs, drains |-> drains, opened |-> opened,
     committed |-> committed, frames |-> frames, inflight |-> inflight,
     after |-> after, failure |-> failure, recovered |-> recovered,
     panic |-> FALSE]

Assign(s) ==
    /\ phase' = s.phase
    /\ logFile' = s.logFile
    /\ curTrans' = s.curTrans
    /\ transList' = s.transList
    /\ transCount' = s.transCount
    /\ dirty' = s.dirty
    /\ payload' = s.payload
    /\ logExists' = s.logExists
    /\ log' = s.log
    /\ logSynced' = s.logSynced
    /\ mainFile' = s.mainFile
    /\ mainDurable' = s.mainDurable
    /\ op' = s.op
    /\ err' = s.err
    /\ writes' = s.writes
    /\ released' = s.released
    /\ decs' = s.decs
    /\ drains' = s.drains
    /\ opened' = s.opened
    /\ committed' = s.committed
    /\ frames' = s.frames
    /\ inflight' = s.inflight
    /\ after' = s.after
    /\ failure' = s.failure
    /\ recovered' = s.recovered

\* A call begins: the record of the previous call is dropped.
Begin(s, name) ==
    [s EXCEPT !.op = name, !.err = "nil", !.writes = <<>>,
              !.released = [r \in Recs |-> <<>>],
              !.decs = [r \in Recs |-> 0], !.drains = 0, !.inflight = <<>>,
              !.failure = "none", !.recovered = "none"]

\* A Go runtime panic (a call on a nil interface, an index out of range).
Panic(s) == [s EXCEPT !.panic = TRUE, !.err = "panic"]

\* Record.InTransaction()
InTransaction(s, r) == s.transCount[r] > 0

\* Record.DecTransCount()
DecTransCount(s, r) == [s EXCEPT !.transCount[r] = @ - 1, !.decs[r] = @ + 1]

\* Record.IncTransCount()
IncTransCount(s, r) == [s EXCEPT !.transCount[r] = @ + 1]

\* owner.releaseInTrans(record, recycle): the owner takes the record back; the
\* call is recorded with the record's transCount at the time of the call.
releaseInTrans(s, r, recycle) ==
    [s EXCEPT !.released[r] = Append(@, <<recycle, s.transCount[r]>>),
              !.payload[r] = NoImage, !.dirty[r] = FALSE]

\* owner.writeRecord(record): the image goes to the record's place in the main
\* file; it is durable only after owner.Sync().
writeRecord(s, r, img) ==
    [s EXCEPT !.mainFile[r] = img, !.writes[Len(s.writes)] = @ \cup {<<r, img>>}]

\* owner.Sync()
ownerSync(s) == [s EXCEPT !.mainDurable = s.mainFile]

\* syncRecord, were writeRecord to put the image in the next place when the
\* record's own place holds an image.
syncRecordAppend(s, r, img, clearMemTransLog) ==
    LET w == writeRecord(s, IF s.mainFile[r] = NoImage THEN r ELSE (r % NumRecs) + 1,
                         img)
        d == DecTransCount(w, r)
    IN  IF ~clearMemTransLog THEN w
        ELSE IF ~InTransaction(d, r) THEN releaseInTrans(d, r, TRUE)
        ELSE d

\* One turn of the loop of syncRecords for a record whose writeRecord succeeds.
syncRecord(s, r, img, clearMemTransLog) ==
    LET w == writeRecord(s, r, img)
        d == DecTransCount(w, r)
    IN  IF ~clearMemTransLog THEN w
        ELSE IF ~InTransaction(d, r) THEN releaseInTrans(d, r, TRUE)
        ELSE d

RECURSIVE syncEach(_, _, _, _)
syncEach(s, records, todo, clearMemTransLog) ==
    IF todo = {} THEN s
    ELSE LET i == CHOOSE x \in todo : TRUE
         IN  syncEach(syncRecord(s, i, records[i], clearMemTransLog), records,
                      todo \ {i}, clearMemTransLog)

\* syncRecords: records maps ids to page images and is walked in no fixed order.
\* A failing writeRecord (fault f) ends the walk: the ids of f.pre came before it.
syncRecords(s, records, clearMemTransLog, f) ==
    LET n == Len(s.writes) + 1
        fails == /\ f.kind = "writeRecord"
                 /\ f.at = n
                 /\ f.id \in DOMAIN records
                 /\ f.pre \subseteq (DOMAIN records \ {f.id})
        todo == IF fails THEN f.pre ELSE DOMAIN records
        a == syncEach([s EXCEPT !.writes = Append(@, {})], records, todo,
                      clearMemTransLog)
    IN  [a EXCEPT !.err = IF fails THEN "io" ELSE "nil"]

\* syncFile: the error of Sync is not looked at.
syncFile(s, f) ==
    IF ~s.logFile THEN Panic(s)
    ELSE IF f.kind = "syncFileSync" THEN s
    ELSE [s EXCEPT !.logSynced = Len(s.log)]

\* close
close(s, f) ==
    LET a == syncFile(s, f)
    IN  IF a.panic THEN a ELSE [a EXCEPT !.logFile = FALSE]

\* open, were it to open the log without O_TRUNC.
openNoTrunc(s, f) ==
    IF f.kind = "openFile" THEN [s EXCEPT !.err = "io"]
    ELSE [s EXCEPT !.logFile = TRUE, !.logExists = TRUE,
                   !.log = IF Len(s.log) >= 2 THEN s.log ELSE TRANSACTION_LOG_HEADER,
                   !.logSynced = Len(s.log), !.curTrans = -1, !.err = "nil"]

\* open, were it to leave curTrans as it is.
openKeepCur(s, f) ==
    IF f.kind = "openFile" THEN [s EXCEPT !.err = "io"]
    ELSE LET written == IF f.kind = "openWrite" THEN <<>>
                        ELSE TRANSACTION_LOG_HEADER
             synced == IF f.kind = "openSync" THEN 0 ELSE Len(written)
         IN  [s EXCEPT !.logFile = TRUE, !.logExists = TRUE, !.log = written,
                       !.logSynced = synced, !.err = "nil", !.frames = <<>>]

\* open: O_CREATE|O_TRUNC, then the header is written and synced; the results
\* of Write and Sync are not looked at.
open(s, f) ==
    IF f.kind = "openFile" THEN [s EXCEPT !.err = "io"]
    ELSE LET written == IF f.kind = "openWrite" THEN <<>>
                        ELSE TRANSACTION_LOG_HEADER
             synced == IF f.kind = "openSync" THEN 0 ELSE Len(written)
         IN  [s EXCEPT !.logFile = TRUE, !.logExists = TRUE, !.log = written,
                       !.logSynced = synced, !.curTrans = -1, !.err = "nil",
                       !.frames = <<>>]

\* The recMap of one frame of recover: a later record of an id replaces an
\* earlier one.
RECURSIVE frameMap(_, _)
frameMap(toks, recMap) ==
    IF toks = <<>> THEN recMap
    ELSE LET r == Head(toks).v
         IN  frameMap(Tail(toks),
                      [i \in DOMAIN recMap \cup {r} |->
                          IF i = r THEN Head(toks).w ELSE recMap[i]])

\* readFrame, were it to hand on the records it could read of a frame that is
\* cut short.
readFramePartial(lg, p) ==
    IF lg[p].t # "count" THEN [err |-> "io", recs |-> <<>>]
    ELSE LET got == {k \in 1 .. lg[p].v :
                        /\ p + k <= Len(lg)
                        /\ \A j \in 1 .. k : lg[p + j].t = "rec"}
         IN  [err |-> "nil", recs |-> SubSeq(lg, p + 1, p + Cardinality(got))]

\* One turn of the loop of recover at read position p: the count is read, then
\* that many records; a read that fails ends recover with its error.
readFrame(lg, p) ==
    IF lg[p].t # "count" THEN [err |-> "io", recs |-> <<>>]
    ELSE LET numRecords == lg[p].v
             whole == /\ p + numRecords <= Len(lg)
                      /\ \A i \in 1 .. numRecords : lg[p + i].t = "rec"
         IN  IF whole THEN [err |-> "nil", recs |-> SubSeq(lg, p + 1, p + numRecords)]
             ELSE [err |-> "io", recs |-> <<>>]

\* The loop of recover, were it to end after the first frame.
replayFirstFrame(s, p, f) ==
    IF p > Len(s.log) THEN [s EXCEPT !.err = "nil"]
    ELSE LET fr == readFrame(s.log, p)
         IN  IF fr.err # "nil" THEN [s EXCEPT !.err = fr.err]
             ELSE [syncRecords(s, frameMap(fr.recs, <<>>), FALSE, f)
                      EXCEPT !.err = "nil"]

\* The loop of recover from read position p; what syncRecords returns is not
\* looked at.
RECURSIVE replay(_, _, _)
replay(s, p, f) ==
    IF p > Len(s.log) THEN [s EXCEPT !.err = "nil"]
    ELSE LET fr == readFrame(s.log, p)
         IN  IF fr.err # "nil" THEN [s EXCEPT !.err = fr.err]
             ELSE replay(syncRecords(s, frameMap(fr.recs, <<>>), FALSE, f),
                         p + Len(fr.recs) + 1, f)

\* recover, were the first record of an id in the log to win over the later ones.
recoverEarlierWins(s, f) ==
    IF ~s.logExists THEN [s EXCEPT !.err = "nil"]
    ELSE IF \/ Len(s.log) < 2
            \/ s.log[1] # TRANSACTION_LOG_HEADER[1]
            \/ s.log[2] # TRANSACTION_LOG_HEADER[2]
         THEN [s EXCEPT !.err = "ErrBadMagic"]
    ELSE LET r == replay(s, 3, f)
             first(i) == {k \in 1 .. Len(s.log) :
                             /\ s.log[k].t = "rec" /\ s.log[k].v = i
                             /\ \A j \in 1 .. k - 1 :
                                   ~(s.log[j].t = "rec" /\ s.log[j].v = i)}
         IN  [r EXCEPT !.mainFile =
                 [i \in Recs |-> IF r.err = "nil" /\ first(i) # {}
                                 THEN s.log[CHOOSE k \in first(i) : TRUE].w
                                 ELSE r.mainFile[i]]]

\* recover
recover(s, f) ==
    LET r == IF ~s.logExists THEN [s EXCEPT !.err = "nil"]
             ELSE IF f.kind = "recoverOpen" THEN [s EXCEPT !.err = "io"]
             ELSE IF \/ Len(s.log) < 2
                     \/ s.log[1] # TRANSACTION_LOG_HEADER[1]
                     \/ s.log[2] # TRANSACTION_LOG_HEADER[2]
                  THEN [s EXCEPT !.err = "ErrBadMagic"]
             ELSE replay(s, 3, f)
    IN  [r EXCEPT !.recovered = r.err]

\* coalesce, were it to skip a record seen before without DecTransCount.
RECURSIVE coalesceNoDec(_, _, _)
coalesceNoDec(s, recs, recMap) ==
    IF recs = <<>> THEN [s |-> s, recMap |-> recMap]
    ELSE coalesceNoDec(s, Tail(recs), recMap \cup {Head(recs)})

\* The scan of one slot in syncLogFromMemory: the first record seen for an id
\* goes to recMap, a later one only has its transaction count decreased.
RECURSIVE coalesce(_, _, _)
coalesce(s, recs, recMap) ==
    IF recs = <<>> THEN [s |-> s, recMap |-> recMap]
    ELSE LET record == Head(recs)
         IN  IF record \in recMap
             THEN coalesce(DecTransCount(s, record), Tail(recs), recMap)
             ELSE coalesce(s, Tail(recs), recMap \cup {record})

RECURSIVE coalesceSlots(_, _, _)
coalesceSlots(s, i, recMap) ==
    IF i >= maxTrans THEN [s |-> s, recMap |-> recMap]
    ELSE IF ~s.transList[i].alloc THEN coalesceSlots(s, i + 1, recMap)
    ELSE LET c == coalesce(s, s.transList[i].recs, recMap)
         IN  coalesceSlots([c.s EXCEPT !.transList[i] = NilList,
                                       !.committed[i] = FALSE], i + 1, c.recMap)

\* syncLogFromMemory
syncLogFromMemory(s, f) ==
    LET a == close([s EXCEPT !.drains = @ + 1, !.opened = 0], f)
        c == coalesceSlots(a, 0, {})
        w == syncRecords(c.s, [r \in c.recMap |-> c.s.payload[r]], TRUE, f)
    IN  IF a.panic THEN a
        ELSE IF w.err # "nil" THEN w
        ELSE open(IF f.kind = "ownerSync" THEN w ELSE ownerSync(w), f)

\* discard, were it to release the record without asking InTransaction.
discardAlways(s, record) ==
    releaseInTrans(DecTransCount(s, record), record, FALSE)

\* The loop body of syncLogFromDisk for one record.
discard(s, record) ==
    LET d == DecTransCount(s, record)
    IN  IF ~InTransaction(d, record) THEN releaseInTrans(d, record, FALSE) ELSE d

RECURSIVE discardAll(_, _)
discardAll(s, recs) ==
    IF recs = <<>> THEN s ELSE discardAll(discard(s, Head(recs)), Tail(recs))

RECURSIVE discardSlots(_, _)
discardSlots(s, i) ==
    IF i >= maxTrans THEN s
    ELSE IF ~s.transList[i].alloc THEN discardSlots(s, i + 1)
    ELSE discardSlots([discardAll(s, s.transList[i].recs)
                          EXCEPT !.transList[i] = NilList, !.committed[i] = FALSE],
                      i + 1)

\* syncLogFromDisk, were it to leave out recover.
syncLogFromDiskNoRecover(s, f) ==
    LET a == close([s EXCEPT !.opened = 0], f)
    IN  IF a.panic THEN a ELSE open(discardSlots(a, 0), f)

\* syncLogFromDisk
syncLogFromDisk(s, f) ==
    LET a == close([s EXCEPT !.opened = 0], f)
        r == recover(discardSlots(a, 0), f)
    IN  IF a.panic THEN a
        ELSE IF r.err # "nil" THEN r
        ELSE open(r, f)

\* start, were it to drain one slot early.
startEarly(s, f) ==
    LET c == s.curTrans + 1
        a == IF c >= maxTrans - 1
             THEN [syncLogFromMemory([s EXCEPT !.curTrans = c], f)
                      EXCEPT !.curTrans = 0]
             ELSE [s EXCEPT !.curTrans = c]
    IN  IF a.panic THEN a
        ELSE [a EXCEPT !.transList[a.curTrans] = MakeList, !.err = "none",
                       !.opened = @ + 1, !.committed[a.curTrans] = FALSE]

\* start: what syncLogFromMemory returns is not looked at.
start(s, f) ==
    LET c == s.curTrans + 1
        a == IF c >= maxTrans
             THEN [syncLogFromMemory([s EXCEPT !.curTrans = c], f)
                      EXCEPT !.curTrans = 0]
             ELSE [s EXCEPT !.curTrans = c]
    IN  IF a.panic THEN a
        ELSE [a EXCEPT !.transList[a.curTrans] = MakeList, !.err = "none",
                       !.opened = @ + 1, !.committed[a.curTrans] = FALSE]

\* add
add(s, record) ==
    IF s.curTrans < 0 THEN Panic(s)
    ELSE [IncTransCount(s, record)
             EXCEPT !.transList[s.curTrans].recs = Append(@, record),
                    !.committed[s.curTrans] = FALSE]

\* What commit writes to the log, write by write.
frameTokens(s, recs) ==
    <<Count(Len(recs))>> \o [k \in 1 .. Len(recs) |-> Rec(recs[k], s.payload[recs[k]])]

\* commit, were it to clear the dirty flags before it writes.
commitClearFirst(s, f) ==
    IF s.curTrans < 0 \/ ~s.logFile THEN Panic(s)
    ELSE LET recs == s.transList[s.curTrans].recs
             toks == frameTokens(s, recs)
             fails == f.kind = "commitWrite" /\ f.at \in 1 .. Len(toks)
             c == [s EXCEPT !.dirty = [r \in Recs |->
                                         IF \E k \in 1 .. Len(recs) : recs[k] = r
                                         THEN FALSE ELSE @[r]]]
             w == [c EXCEPT !.log = @ \o (IF fails THEN SubSeq(toks, 1, f.at - 1)
                                          ELSE toks)]
             y == syncFile(w, f)
         IN  IF fails THEN [w EXCEPT !.err = "io"]
             ELSE [y EXCEPT !.err = "nil", !.frames = Append(@, Tail(toks)),
                            !.committed[s.curTrans] = TRUE]

\* commit: the count and the records are written, and the f.at-th write, if it
\* fails, returns its error; then syncFile and ClearDirty of every record.
commit(s, f) ==
    IF s.curTrans < 0 \/ ~s.logFile THEN Panic(s)
    ELSE LET recs == s.transList[s.curTrans].recs
             toks == frameTokens(s, recs)
             fails == f.kind = "commitWrite" /\ f.at \in 1 .. Len(toks)
             w == [s EXCEPT !.log = @ \o (IF fails THEN SubSeq(toks, 1, f.at - 1)
                                          ELSE toks)]
             y == syncFile(w, f)
         IN  IF fails THEN [w EXCEPT !.err = "io"]
             ELSE [y EXCEPT
                     !.dirty = [r \in Recs |->
                                  IF \E k \in 1 .. Len(recs) : recs[k] = r
                                  THEN FALSE ELSE @[r]],
                     !.err = "nil",
                     !.frames = Append(@, Tail(toks)),
                     !.committed[s.curTrans] = TRUE]

\* The process is gone, and the manager and the records in memory with it; the
\* files stay as the file system shows them.
exited(s) ==
    [s EXCEPT !.phase = "down", !.logFile = FALSE, !.curTrans = -1,
              !.transList = [i \in 0 .. maxTrans - 1 |-> NilList],
              !.transCount = [r \in Recs |-> 0],
              !.dirty = [r \in Recs |-> FALSE],
              !.payload = [r \in Recs |-> NoImage], !.opened = 0,
              !.committed = [i \in 0 .. maxTrans - 1 |-> FALSE]]

\* NewTransactionManager, were it to call open() whatever recover returned.
NewTransactionManagerAlwaysOpen(s, doRecover, f) ==
    LET ret == [exited(s) EXCEPT !.logFile = FALSE, !.curTrans = -1,
                    !.transList = [i \in 0 .. maxTrans - 1 |-> NilList]]
        o == open(IF doRecover THEN recover(ret, f) ELSE ret, f)
    IN  IF o.err # "nil" THEN o ELSE [o EXCEPT !.phase = "up"]

\* NewTransactionManager, in a new process.
NewTransactionManager(s, doRecover, f) ==
    LET ret == [exited(s) EXCEPT !.logFile = FALSE, !.curTrans = -1,
                    !.transList = [i \in 0 .. maxTrans - 1 |-> NilList]]
        r == IF doRecover THEN recover(ret, f) ELSE ret
        o == open(r, f)
    IN  IF doRecover /\ r.err # "nil" /\ r.err # "ErrBadMagic" THEN r
        ELSE IF o.err # "nil" THEN o
        ELSE [o EXCEPT !.phase = "up"]

(***************************************************************************)
(* The process and its environment                                         *)
(***************************************************************************)

\* What a crash can leave of the log: everything synced, and any part of
\* what was written after the last sync, the last write possibly cut.
CrashLogs(s) ==
    {SubSeq(s.log, 1, k) : k \in s.logSynced .. Len(s.log)}
    \cup {Append(SubSeq(s.log, 1, k), Torn) :
             k \in {j \in s.logSynced .. Len(s.log) - 1 : s.log[j + 1].t # "byte"}}

\* What a crash can leave of the main file: of every image written since the
\* last owner.Sync(), either it or what was on disk before.
CrashMains(s) ==
    {m \in [Recs -> Images \cup {NoImage}] :
        \A i \in Recs : m[i] \in {s.mainFile[i], s.mainDurable[i]}}

\* The machine is gone: of the files stays what was on disk.
crashed(s, lg, mf) ==
    [exited(s) EXCEPT !.log = lg, !.logSynced = Len(lg),
                      !.mainFile = mf, !.mainDurable = mf]

\* A call returns, or it panicked and the process is gone.
Finish(s) == IF s.panic THEN Assign(exited(s)) ELSE Assign(s)

\* A call ends in a under the failure f, where it would have ended in b without
\* a failure: a failure that changes nothing is no failure.
Failing(a, b, f) ==
    /\ f = NoFault \/ a # b
    /\ Finish([a EXCEPT !.after = IF @ > MaxAfter THEN @
                                  ELSE IF @ > 0 \/ f # NoFault THEN @ + 1 ELSE 0,
                        !.failure = f.kind])

Entries(tl) == LET n[i \in 0 .. maxTrans] ==
                       IF i = 0 THEN 0 ELSE n[i - 1] + Len(tl[i - 1].recs)
               IN  n[maxTrans]

FrameCount(lg) == Cardinality({k \in 1 .. Len(lg) : lg[k].t = "count"})

FaultKinds == {"openFile", "openWrite", "openSync", "syncFileSync", "ownerSync",
               "recoverOpen"}

Faults ==
    {NoFault}
    \cup {[kind |-> k, at |-> 0, id |-> 0, pre |-> {}] : k \in FaultKinds}
    \cup {[kind |-> "commitWrite", at |-> a, id |-> 0, pre |-> {}] :
             a \in 1 .. MaxAdds + 1}
    \cup UNION {{[kind |-> "writeRecord", at |-> a, id |-> i, pre |-> q] :
                    a \in 1 .. MaxFrames, q \in SUBSET (Recs \ {i})} : i \in Recs}

Fresh ==
    [phase |-> "down", logFile |-> FALSE, curTrans |-> -1,
     transList |-> [i \in 0 .. maxTrans - 1 |-> NilList],
     transCount |-> [r \in Recs |-> 0], dirty |-> [r \in Recs |-> FALSE],
     payload |-> [r \in Recs |-> NoImage],
     logExists |-> FALSE, log |-> <<>>, logSynced |-> 0,
     mainFile |-> [i \in Recs |-> NoImage], mainDurable |-> [i \in Recs |-> NoImage],
     op |-> "none", err |-> "nil", writes |-> <<>>,
     released |-> [r \in Recs |-> <<>>], decs |-> [r \in Recs |-> 0],
     drains |-> 0, opened |-> 0,
     committed |-> [i \in 0 .. maxTrans - 1 |-> FALSE],
     frames |-> <<>>, inflight |-> <<>>, after |-> 0,
     failure |-> "none", recovered |-> "none", panic |-> FALSE]

\* The first manager of a new file: NewTransactionManager(owner, false).
Init ==
    LET s == NewTransactionManager(Begin(Fresh, "NewTransactionManager"), FALSE,
                                   NoFault)
    IN  /\ phase = s.phase /\ logFile = s.logFile /\ curTrans = s.curTrans
        /\ transList = s.transList /\ transCount = s.transCount
        /\ dirty = s.dirty /\ payload = s.payload /\ logExists = s.logExists
        /\ log = s.log /\ logSynced = s.logSynced /\ mainFile = s.mainFile
        /\ mainDurable = s.mainDurable /\ op = s.op /\ err = s.err
        /\ writes = s.writes /\ released = s.released /\ decs = s.decs
        /\ drains = s.drains
        /\ opened = s.opened /\ committed = s.committed /\ frames = s.frames
        /\ inflight = s.inflight /\ after = s.after
        /\ failure = s.failure /\ recovered = s.recovered

(***************************************************************************)
(* recover as a function of the log and the main file                      *)
(***************************************************************************)

\* The tokens of a frame of the records x, a sequence of <<id, image>>.
FrameOf(x) == <<Count(Len(x))>> \o [k \in 1 .. Len(x) |-> Rec(x[k][1], x[k][2])]

\* The frames of at most MaxAdds records.
AllFrames ==
    {FrameOf(x) : x \in UNION {[1 .. n -> Recs \X Images] : n \in 0 .. MaxAdds}}

\* The well-formed logs of at most MaxFrames frames.
RECURSIVE LogsOf(_)
LogsOf(n) ==
    IF n = 0 THEN {TRANSACTION_LOG_HEADER}
    ELSE LogsOf(n - 1)
         \cup {lg \o fr : lg \in {l \in LogsOf(n - 1) :
                                     FrameCount(l) = n - 1}, fr \in AllFrames}

\* Any well-formed log beside any main file, and no manager.
InitRecover ==
    /\ phase = "down" /\ logFile = FALSE /\ curTrans = -1
    /\ transList = Fresh.transList /\ transCount = Fresh.transCount
    /\ dirty = Fresh.dirty /\ payload = Fresh.payload /\ logExists = TRUE
    /\ log \in LogsOf(MaxFrames) /\ logSynced = Len(log)
    /\ mainFile \in [Recs -> Images \cup {NoImage}]
    /\ mainDurable = mainFile /\ op = "none" /\ err = "nil"
    /\ writes = <<>> /\ released = Fresh.released /\ decs = Fresh.decs
    /\ drains = 0
    /\ opened = 0 /\ committed = Fresh.committed /\ frames = <<>>
    /\ inflight = <<>> /\ after = 0
    /\ failure = "none" /\ recovered = "none"

\* recover runs on the log, and runs again.
Recover ==
    Assign(recover(Begin(State, IF op = "none" THEN "recover" ELSE "recover again"),
                   NoFault))

NextRecover == Recover

SpecRecover == InitRecover /\ [][NextRecover]_vars

Start(F) ==
    /\ after <= MaxAfter
    /\ phase = "up"
    /\ \E f \in F : Failing(start(Begin(State, "start"), f),
                           start(Begin(State, "start"), NoFault), f)

\* The user of a record has written image img to it and hands it over.
Add(r, img) ==
    /\ after <= MaxAfter
    /\ phase = "up"
    /\ Entries(transList) < MaxAdds
    /\ Failing(add([Begin(State, "add") EXCEPT !.payload[r] = img,
                                                 !.dirty[r] = TRUE], r),
               State, NoFault)

Commit(F) ==
    /\ after <= MaxAfter
    /\ phase \in {"up", "closed"}
    /\ FrameCount(log) < MaxFrames
    /\ \E f \in F : Failing(commit(Begin(State, "commit"), f),
                           commit(Begin(State, "commit"), NoFault), f)

Rollback(F) ==
    /\ after <= MaxAfter
    /\ phase \in {"up", "closed"}
    /\ \E f \in F : Failing(syncLogFromDisk(Begin(State, "syncLogFromDisk"), f),
                           syncLogFromDisk(Begin(State, "syncLogFromDisk"), NoFault), f)

Drain(F) ==
    /\ after <= MaxAfter
    /\ phase \in {"up", "closed"}
    /\ \E f \in F : Failing(syncLogFromMemory(Begin(State, "syncLogFromMemory"), f),
                           syncLogFromMemory(Begin(State, "syncLogFromMemory"), NoFault), f)

\* The user of the manager closes it, having drained it or rolled it back, and
\* starts no further transaction.
Close(F) ==
    /\ after <= MaxAfter
    /\ phase \in {"up", "closed"}
    /\ Entries(transList) = 0
    /\ \E f \in F :
          Failing([close(Begin(State, "close"), f) EXCEPT !.phase = "closed"],
                  [close(Begin(State, "close"), NoFault) EXCEPT !.phase = "closed"], f)

\* A new process constructs the manager.
Construct(F) ==
    /\ phase \in {"closed", "down"}
    /\ \E doRecover \in BOOLEAN, f \in F :
          LET b == [State EXCEPT !.op = IF doRecover THEN "NewTransactionManager(true)"
                                        ELSE "NewTransactionManager",
                                 !.err = "nil", !.writes = <<>>,
                                 !.released = [r \in Recs |-> <<>>],
                                 !.decs = [r \in Recs |-> 0], !.drains = 0,
                                 !.recovered = "none"]
              Made(s) == IF s.phase = "up" THEN [s EXCEPT !.inflight = <<>>] ELSE s
          IN  Failing(Made(NewTransactionManager(b, doRecover, f)),
                      Made(NewTransactionManager(b, doRecover, NoFault)), f)

\* The process ends without closing the manager.
Exit ==
    /\ phase = "up"
    /\ Assign(exited(Begin(State, "exit")))

\* The machine goes down between two calls.
Crash ==
    /\ phase \in {"up", "closed"}
    /\ \E lg \in CrashLogs(State), mf \in CrashMains(State) :
          Assign(crashed(Begin(State, "crash"), lg, mf))

\* The machine goes down inside commit, after k of its writes and before its
\* sync.
CrashInCommit ==
    /\ phase = "up"
    /\ curTrans >= 0
    /\ logFile
    /\ FrameCount(log) < MaxFrames
    /\ LET toks == frameTokens(State, transList[curTrans].recs)
       IN  \E k \in 0 .. Len(toks) :
             LET w == [Begin(State, "crash") EXCEPT
                          !.log = @ \o SubSeq(toks, 1, k),
                          !.inflight = <<Tail(toks)>>]
             IN  \E lg \in CrashLogs(w), mf \in CrashMains(w) :
                    Assign(crashed(w, lg, mf))

Next ==
    \/ Start({NoFault})
    \/ \E r \in Recs, img \in Images : Add(r, img)
    \/ Commit({NoFault})
    \/ Rollback({NoFault})
    \/ Drain({NoFault})
    \/ Close({NoFault})
    \/ Construct({NoFault})
    \/ Crash
    \/ CrashInCommit

Spec == Init /\ [][Next]_vars

\* With failing I/O the records carry one image.
NextFault ==
    \/ Start(Faults)
    \/ \E r \in Recs : Add(r, 1)
    \/ Commit(Faults)
    \/ Rollback(Faults)
    \/ Drain(Faults)
    \/ Close(Faults)
    \/ Construct(Faults)
    \/ Exit

SpecFault == Init /\ [][NextFault]_vars

(***************************************************************************)
(* Properties                                                              *)
(***************************************************************************)

\* The <<id, image>> pairs of the records of a frame.
FrameImages(fr) == {<<fr[k].v, fr[k].w>> : k \in 1 .. Len(fr)}

\* The <<id, image>> pairs of the frames committed to the log.
CommittedImages == UNION {FrameImages(frames[k]) : k \in 1 .. Len(frames)}

\* The positions of the records of id i in a log.
Occurrences(lg, i) == {k \in 1 .. Len(lg) : lg[k].t = "rec" /\ lg[k].v = i}

\* The image of the last record of id i in a log in which it occurs.
LastLogged(lg, i) ==
    lg[CHOOSE k \in Occurrences(lg, i) : \A j \in Occurrences(lg, i) : j <= k].w

\* The number of tokens of the header and of the committed frames.
CommittedLen ==
    LET n[k \in 0 .. Len(frames)] ==
            IF k = 0 THEN 2 ELSE n[k - 1] + 1 + Len(frames[k])
    IN  n[Len(frames)]

\* The records enrolled in the slots.
Enrolled == {r \in Recs : \E i \in 0 .. maxTrans - 1, k \in 1 .. MaxAdds :
                              k <= Len(transList[i].recs) /\ transList[i].recs[k] = r}

\* The step is a call that has ended with open() truncating the log.
Truncating ==
    /\ phase' = "up"
    /\ logFile'
    /\ \/ op' \in {"syncLogFromMemory", "syncLogFromDisk", "NewTransactionManager(true)"}
             /\ err' = "nil"
       \/ op' = "start" /\ drains' = 1

\* C1: durability of committed transactions; in particular open() never
\* truncates the log while an image of one of its committed frames has been
\* written to the main file and is not yet durable there.
C1_Durability ==
    [][Truncating =>
          \A t \in CommittedImages : mainDurable'[t[1]] = mainFile'[t[1]]]_vars

\* C2: atomic frames: recovery after a crash applies every committed frame in
\* full and in order, and of the frame whose commit the crash interrupted all
\* records (when all of them are in the log) or none.
C2_AtomicFrames ==
    [][op' = "NewTransactionManager(true)" =>
          /\ Len(writes') \in {Len(frames), Len(frames) + 1}
          /\ \A k \in 1 .. Len(frames) : writes'[k] = FrameImages(frames[k])
          /\ Len(writes') = Len(frames) + 1 =>
                /\ inflight # <<>>
                /\ Len(log) = CommittedLen + 1 + Len(inflight[1])
                /\ writes'[Len(frames) + 1] = FrameImages(inflight[1])]_vars

\* Recovery has met a torn frame behind a whole one: it has applied the whole
\* frame and nothing of the torn one.
C2_Witness ==
    /\ op = "NewTransactionManager(true)"
    /\ err = "io"
    /\ inflight # <<>>
    /\ Len(inflight[1]) = 2
    /\ Len(log) > CommittedLen + 1
    /\ Len(writes) = 1
    /\ writes[1] # {}

C4_OnlyCommitted ==
    [][\A k \in 1 .. Len(writes') :
          writes'[k] \subseteq
             (CommittedImages
              \cup UNION {FrameImages(inflight[j]) : j \in 1 .. Len(inflight)})]_vars

\* C5: capacity drain: a start drains exactly when maxTrans slots have been
\* opened since the last drain, rollback or construction, and it drains before
\* it allocates the new slot, which is the only slot afterwards and is empty.
C5_CapacityDrain ==
    [][(op' = "start" /\ phase' = "up") =>
          /\ drains' = (IF opened = maxTrans THEN 1 ELSE 0)
          /\ drains' = 1 =>
                /\ writes' = <<{<<r, payload[r]>> : r \in Enrolled}>>
                /\ transList'[curTrans'] = MakeList
                /\ \A i \in 0 .. maxTrans - 1 :
                      i # curTrans' => transList'[i] = NilList]_vars

\* The start that follows maxTrans starts has drained.
C5_Witness ==
    /\ op = "start"
    /\ drains = 1
    /\ opened = 1
    /\ writes # <<{}>>

\* C6: post-drain state: on return from a start that drained, the main file
\* holds the image of every record that was enrolled in a slot, the log on disk
\* is the header alone, curTrans = 0, slot 0 is a fresh empty slot and every
\* other slot is nil.
C6_PostDrain ==
    [][(op' = "start" /\ drains' = 1 /\ phase' = "up") =>
          /\ \A r \in Enrolled : mainFile'[r] # NoImage /\ mainFile'[r] = payload[r]
          /\ log' = TRANSACTION_LOG_HEADER
          /\ logSynced' = Len(TRANSACTION_LOG_HEADER)
          /\ curTrans' = 0
          /\ transList'[0] = MakeList
          /\ \A i \in 1 .. maxTrans - 1 : transList'[i] = NilList]_vars

\* A start has drained two records over a log that held a committed frame.
C6_Witness ==
    /\ op = "start"
    /\ drains = 1
    /\ phase = "up"
    /\ \A r \in Recs : mainFile[r] # NoImage /\ Len(released[r]) = 1
    /\ log = TRANSACTION_LOG_HEADER

\* C7: rollback: after syncLogFromDisk has returned nil every slot is nil, every
\* record that was enrolled has transCount 0 and was released once, with
\* recycle = false, the main file holds for every id of the log the image of its
\* last record in the log and is unchanged for every other id, the log is the
\* header alone and curTrans = -1.
C7_Rollback ==
    [][(op' = "syncLogFromDisk" /\ err' = "nil" /\ phase' = "up") =>
          /\ \A i \in 0 .. maxTrans - 1 : transList'[i] = NilList
          /\ \A r \in Enrolled : transCount'[r] = 0 /\ released'[r] = <<<<FALSE, 0>>>>
          /\ \A r \in Recs \ Enrolled : released'[r] = <<>>
          /\ \A i \in Recs :
                mainFile'[i] = IF Occurrences(log, i) # {}
                               THEN log[CHOOSE k \in Occurrences(log, i) :
                                           \A j \in Occurrences(log, i) : j <= k].w
                               ELSE mainFile[i]
          /\ log' = TRANSACTION_LOG_HEADER
          /\ curTrans' = -1]_vars

\* A rollback has discarded a record enrolled twice, of which the log held a
\* committed image.
C7_Witness ==
    /\ op = "syncLogFromDisk"
    /\ err = "nil"
    /\ phase = "up"
    /\ \E r \in Recs :
          /\ released[r] = <<<<FALSE, 0>>>>
          /\ decs[r] = 2
          /\ Len(writes) = 1
          /\ writes[1] = {<<r, 1>>}
          /\ mainFile[r] = 1

\* The number of times record r is listed in the slots: its IncTransCount calls
\* since it was last released.
Enrolments(r) ==
    Cardinality({x \in (0 .. maxTrans - 1) \X (1 .. MaxAdds) :
                    /\ x[2] <= Len(transList[x[1]].recs)
                    /\ transList[x[1]].recs[x[2]] = r})

\* The step is a drain or a rollback that has ended.
Ended ==
    /\ phase' = "up"
    /\ \/ op' \in {"syncLogFromMemory", "syncLogFromDisk"} /\ err' = "nil"
       \/ op' = "start" /\ drains' = 1

\* C8: counter balance: no transCount is ever negative, and when a drain or a
\* rollback has ended, every record that was enrolled has had as many
\* DecTransCount calls as it had IncTransCount calls, has transCount 0 and was
\* released exactly once; no other record was touched.
C8_CounterBalance ==
    [][/\ \A r \in Recs : transCount'[r] >= 0
       /\ Ended =>
             \A r \in Recs :
                IF r \in Enrolled
                THEN /\ transCount[r] = Enrolments(r)
                     /\ decs'[r] = Enrolments(r)
                     /\ transCount'[r] = 0
                     /\ Len(released'[r]) = 1
                ELSE decs'[r] = 0 /\ released'[r] = <<>>]_vars

\* A drain has ended that covered a record enrolled twice and a record enrolled
\* once.
C8_Witness ==
    /\ op = "syncLogFromMemory"
    /\ err = "nil"
    /\ phase = "up"
    /\ \E r \in Recs :
          /\ decs[r] = 2
          /\ Len(released[r]) = 1
          /\ transCount[r] = 0

\* C9: at every releaseInTrans call of the manager the record's transCount is 0.
C9_ReleaseOnlyAtZero ==
    \A r \in Recs : \A k \in 1 .. Len(released[r]) : released[r][k][2] = 0

\* A drain inside start has released a record that was enrolled twice.
C9_Witness ==
    /\ op = "start"
    /\ drains = 1
    /\ \E r \in Recs : decs[r] = 2 /\ released[r] = <<<<TRUE, 0>>>>

\* C10: header invariant: after an open() that returned nil and after a commit()
\* that returned nil the log begins with the two bytes of the header, also when
\* writes and syncs of the log file can fail.
C10_Header ==
    (\/ op = "commit" /\ err = "nil"
     \/ /\ op \in {"NewTransactionManager", "NewTransactionManager(true)",
                   "syncLogFromMemory", "syncLogFromDisk"}
        /\ err = "nil"
        /\ logFile
     \/ op = "start" /\ drains = 1 /\ logFile)
    => /\ Len(log) >= Len(TRANSACTION_LOG_HEADER)
       /\ SubSeq(log, 1, Len(TRANSACTION_LOG_HEADER)) = TRANSACTION_LOG_HEADER

\* The log is shorter than the header or does not begin with it.
BadMagic(lg) ==
    \/ Len(lg) < Len(TRANSACTION_LOG_HEADER)
    \/ SubSeq(lg, 1, Len(TRANSACTION_LOG_HEADER)) # TRANSACTION_LOG_HEADER

\* From position p on the log is a sequence of whole frames.
RECURSIVE Framed(_, _)
Framed(lg, p) ==
    \/ p > Len(lg)
    \/ /\ lg[p].t = "count"
       /\ p + lg[p].v <= Len(lg)
       /\ \A i \in 1 .. lg[p].v : lg[p + i].t = "rec"
       /\ Framed(lg, p + lg[p].v + 1)

\* C11: construction with doRecover = true: when recover returns ErrBadMagic
\* (and open() meets no failure) the manager is returned with the log
\* re-initialised to the header and curTrans = -1; when recover returns another
\* error, construction returns it, no manager is returned and the log file is as
\* it was; recover returns ErrBadMagic exactly for a log that is shorter than the
\* header or does not begin with it.
C11_Construction ==
    [][op' = "NewTransactionManager(true)" =>
          /\ (logExists /\ failure' # "recoverOpen") =>
                (recovered' = "ErrBadMagic" <=> BadMagic(log))
          /\ (recovered' = "ErrBadMagic" /\ failure' = "none") =>
                /\ phase' = "up" /\ err' = "nil" /\ logFile'
                /\ log' = TRANSACTION_LOG_HEADER
                /\ curTrans' = -1
          /\ recovered' \notin {"nil", "ErrBadMagic"} =>
                /\ phase' = "down" /\ err' = recovered' /\ ~logFile'
                /\ log' = log /\ logSynced' = logSynced /\ logExists' = logExists
          /\ (logExists /\ ~BadMagic(log) /\ ~Framed(log, 3)) =>
                recovered' = "io"]_vars

\* A manager was constructed over a log that recover rejected with ErrBadMagic.
C11_Witness ==
    /\ op = "NewTransactionManager(true)"
    /\ recovered = "ErrBadMagic"
    /\ failure = "none"
    /\ phase = "up"
    /\ log = TRANSACTION_LOG_HEADER

\* C12: failed commit: when a write of commit fails, commit returns the error and
\* leaves every dirty flag, every transCount, the slots and curTrans as they
\* were; a drain that follows applies the records of the slot.
C12_FailedCommit ==
    [][/\ (op' = "commit" /\ failure' = "commitWrite") =>
             /\ err' = "io"
             /\ phase' = "up"
             /\ dirty' = dirty
             /\ transCount' = transCount
             /\ payload' = payload
             /\ transList' = transList
             /\ curTrans' = curTrans
       /\ (/\ op = "commit" /\ failure = "commitWrite"
           /\ failure' = "none"
           /\ op' = "syncLogFromMemory" \/ (op' = "start" /\ drains' = 1)) =>
             /\ writes' = <<{<<r, payload[r]>> : r \in Enrolled}>>
             /\ \A r \in Enrolled : mainFile'[r] = payload[r]]_vars

\* A commit has failed at the write of a record, after the write of the count.
C12_Witness ==
    /\ op = "commit"
    /\ failure = "commitWrite"
    /\ err = "io"
    /\ log[Len(log)].t = "count"
    /\ \E r \in Recs : dirty[r] /\ transCount[r] > 0
                       /\ transList[curTrans].recs = <<r>>

\* C13: close() is idempotent on a closed manager: called with logFile absent, it
\* completes without fault and leaves logFile absent and the rest of the manager
\* and the log as they were.
C13_CloseIdempotent ==
    [][(op' = "close" /\ ~logFile) =>
          /\ err' # "panic"
          /\ ~logFile'
          /\ curTrans' = curTrans
          /\ transList' = transList
          /\ transCount' = transCount
          /\ log' = log]_vars

\* C14: apply idempotence: recover run again on the unchanged log leaves the
\* main file as the first run left it, for every well-formed log.
C14_ApplyIdempotent ==
    [][op' = "recover again" =>
          /\ log' = log
          /\ err' = "nil"
          /\ writes' = writes
          /\ mainFile' = mainFile]_vars

\* recover has run twice on a log of two frames with different images of one id.
C14_Witness ==
    /\ op = "recover again"
    /\ err = "nil"
    /\ Len(writes) = 2
    /\ \E r \in Recs : <<r, 1>> \in writes[1] /\ <<r, 2>> \in writes[2]
                       /\ mainFile[r] = 2

\* C15: log well-formedness: between the calls of a manager, what follows the
\* header in the log is a sequence of whole frames, also after a commit that
\* failed part-way through its writes.
C15_LogWellFormed ==
    (phase = "up" /\ ~BadMagic(log)) => Framed(log, Len(TRANSACTION_LOG_HEADER) + 1)

\* The manager after recover has replayed the log as it is.
Replayed == recover(Begin(State, "recover"), NoFault)

\* The manager after a drain of the slots as they are.
Drained == syncLogFromMemory(Begin(State, "syncLogFromMemory"), NoFault)

\* The ids that the syncRecords calls listed in w have written.
WrittenIds(w) == {t[1] : t \in UNION {w[k] : k \in 1 .. Len(w)}}

\* Every slot in use has been committed and nothing was added to it since.
AllCommitted == \A i \in 0 .. maxTrans - 1 : transList[i].alloc => committed[i]

\* C16: failed drain: when writeRecord fails in syncLogFromMemory, the records
\* applied before stay applied, logFile is left absent, open() is not called and
\* the log keeps every committed frame, so that replaying it gives every
\* committed image; and the call that ran the drain, start included, reports
\* the failure.
C16_FailedDrain ==
    [][(drains' = 1 /\ failure' = "writeRecord") =>
          /\ ~logFile'
          /\ log' = log
          /\ \A t \in writes'[1] : mainFile'[t[1]] = t[2]
          /\ \A t \in CommittedImages :
                \E k \in Occurrences(log', t[1]) : log'[k].w = t[2]
          /\ err' = "io"]_vars

\* C17: no swallowed errors: a failure of a log write, a log sync,
\* owner.writeRecord or owner.Sync inside a construction, a commit, a drain (also
\* one run by start) or a rollback is returned to the caller.
C17_NoSwallowedErrors ==
    (failure # "none" /\ op # "close") => err \notin {"nil", "none"}

\* C18: range of cur: after every start, and so in every add and commit,
\* 0 <= curTrans < maxTrans and transList[curTrans] is an allocated slot;
\* curTrans = -1 exactly from a completed open() to the next start, and then
\* every slot is nil.
C18_RangeOfCur ==
    phase \in {"up", "closed"} =>
        /\ curTrans = -1 <=> opened = 0
        /\ curTrans = -1 => \A i \in 0 .. maxTrans - 1 : transList[i] = NilList
        /\ curTrans # -1 => curTrans \in 0 .. maxTrans - 1 /\ transList[curTrans].alloc
        /\ op \in {"start", "add", "commit"} => curTrans # -1

\* A start that drained and wrapped around to slot 0, and a drain called by
\* itself that wrote records, after which curTrans = -1.
C18_Witness ==
    \/ op = "start" /\ drains = 1 /\ curTrans = 0 /\ transList[0] = MakeList
    \/ op = "syncLogFromMemory" /\ curTrans = -1 /\ writes # <<>> /\ writes[1] # {}

\* The number of slots whose list holds record r.
SlotsWith(r) ==
    Cardinality({i \in 0 .. maxTrans - 1 :
                    \E k \in 1 .. Len(transList[i].recs) : transList[i].recs[k] = r})

\* C19: slot reference counting: between the calls of a manager, the transCount
\* of every record is at least the number of slots that hold it, and a record
\* with transCount > 0 is held by some slot, also when a drain was aborted by a
\* failure of writeRecord.
C19_SlotReferenceCounting ==
    phase = "up" =>
        \A r \in Recs : /\ transCount[r] >= SlotsWith(r)
                        /\ transCount[r] > 0 => r \in Enrolled

====
